---- MODULE Spec2Model ----
(***************************************************************************)
(* Order pipeline: producer -> SQS queue (DLQ after maxReceiveCount)       *)
(* -> consumer (DynamoDB Put, EventBridge PutEvents) -> EventBridge rules  *)
(* -> triggerWorkflow -> Step Functions workflow (validateOrder,           *)
(* processPayment, updateInventory, sendNotification, handleFailure).      *)
(***************************************************************************)
EXTENDS Integers, Sequences, FiniteSets, TLC

\* ------------------------------------------------------------------ bounds
\* POST /orders requests issued in one behaviour.
MaxSubmit == 2
\* Workflow executions started in one behaviour.
MaxExec == 2
\* Events on the bus when the router is exercised alone.
MaxEvents == 2

\* Subscriptions the topic creates in one behaviour.
MaxSubs == 2
\* Orders consumed before GET /orders is exercised alone.
MaxRecords == 3
\* Orders submitted in the browser in one behaviour.
MaxTracked == 3
\* Shortcuts the keyboard hook is mounted with.
MaxShortcuts == 2

\* ------------------------------------------------------- program constants
maxReceiveCount == 3
batchSize == 10
HighValueThreshold == 500
MaxOrderValue == 10000

\* ------------------------------------------------------------------ values
\* Marks a field that is absent from a JSON object (undefined).
Absent == "absent"

\* Concurrent instances of the consumer function.
Consumers == {1, 2}

\* Order submissions a client POSTs.  items is the list of item prices.
\*   T1: the spec's end-to-end order (high value, urgent, valid)
\*   T2: the same shape sent without a timestamp
Bodies ==
  { [orderId |-> "T1", timestamp |-> "t0", orderValue |-> 999,
     priority |-> "urgent", status |-> "submitted", items |-> <<999>>],
    [orderId |-> "T2", timestamp |-> Absent, orderValue |-> 999,
     priority |-> "high", status |-> "submitted", items |-> <<999>>] }

\* Orders the workflow and the rules are also exercised with:
\*   T3: a value at the validation upper bound (high value, invalid)
\*   T4: a value at the high-value threshold (no workflow)
Orders ==
  Bodies \cup
  { [orderId |-> "T3", timestamp |-> "t0", orderValue |-> 10000,
     priority |-> "low", status |-> "submitted", items |-> <<10000>>],
    [orderId |-> "T4", timestamp |-> "t0", orderValue |-> 500,
     priority |-> "medium", status |-> "submitted", items |-> <<500>>] }

\* HTTP request bodies: none, a JSON object without orderId, or an order.
NoBody == [orderId |-> Absent, timestamp |-> Absent, orderValue |-> 0,
           priority |-> Absent, status |-> Absent, items |-> <<>>]
Requests == Bodies \cup {NoBody}

VARIABLES
  nreq,       \* POST /orders requests handled so far
  httpResp,   \* status code of the last producer response (0: none yet)
  queue,      \* OrdersQueue: sequence of [body, st, rc]; index = message id
  inv,        \* consumer invocations: [batch, idx] per consumer
  now,        \* wall clock read by new Date()
  store,      \* OrdersTable: <<orderId, timestamp>> -> item
  bus,        \* OrderEventBus: events accepted and not yet delivered to the rules
  execs,      \* OrderWorkflow executions, in start order
  dispatched, \* rule targets invoked so far: set of <<target, event>>
  subs,       \* subscriptions of the notifications topic, in creation order
  unsub,      \* unsubscribeEmail invocations: position, email, listed ARN
  delivered,  \* the last message published to the topic and its recipients
  scanResp,   \* the last response of GET /orders
  ui,         \* the browser: tracked orders, API call in flight, timers
  hook,       \* the keyboard hook: shortcuts, isEnabled, last keydown, actions run
  notified    \* notify handler invocations that ended: <<target, event, outcome>>

vars == <<nreq, httpResp, queue, inv, now, store, bus, execs, dispatched, subs,
          unsub, delivered, scanResp, ui, hook, notified>>

Idle == [batch |-> <<>>, idx |-> 0]

\* Concurrent invocations of the unsubscribeEmail function.
Unsubscribers == {1, 2}

\* An unsubscribeEmail invocation that is not running.
NoCall == [pc |-> "idle", email |-> <<>>, arn |-> 0]

\* Nothing was published to the topic yet.
NoDelivery == [eventType |-> "none", to |-> {}]

\* GET /orders was not called yet.
NoResponse == [status |-> 0, orders |-> <<>>]

\* The browser's empty order list: no call in flight, no timer pending;
\* nextId stands for the next `${Date.now()}-${Math.random()}`.
NoOrders == [orders |-> <<>>, call |-> "none", timers |-> <<>>, nextId |-> 1]

\* No keydown event.
NoEvent == [key |-> "", ctrlKey |-> FALSE, shiftKey |-> FALSE, altKey |-> FALSE,
            metaKey |-> FALSE, tagName |-> "BODY"]

\* The keyboard hook before it is mounted: no shortcuts, no event, nothing ran.
NoKeys == [shortcuts |-> <<>>, isEnabled |-> TRUE, event |-> NoEvent, ran |-> <<>>]

Init ==
  /\ nreq = 0
  /\ httpResp = 0
  /\ queue = <<>>
  /\ inv = [c \in Consumers |-> Idle]
  /\ now = 1
  /\ store = <<>>
  /\ bus = <<>>
  /\ execs = <<>>
  /\ dispatched = {}
  /\ subs = <<>>
  /\ unsub = [w \in Unsubscribers |-> NoCall]
  /\ delivered = NoDelivery
  /\ scanResp = NoResponse
  /\ ui = NoOrders
  /\ hook = NoKeys
  /\ notified = {}

\* ----------------------------------------------------------------- helpers
\* Multisets as functions from element to a positive count.
BagAdd(b, e) ==
  IF e \in DOMAIN b THEN [b EXCEPT ![e] = @ + 1] ELSE (e :> 1) @@ b

BagRemove(b, e) ==
  IF b[e] > 1 THEN [b EXCEPT ![e] = @ - 1]
  ELSE [x \in (DOMAIN b) \ {e} |-> b[x]]

BagCount(b, e) == IF e \in DOMAIN b THEN b[e] ELSE 0

RECURSIVE Perms(_)
\* Every ordering of the finite set S.
Perms(S) ==
  IF S = {} THEN {<<>>}
  ELSE UNION { {<<x>> \o p : p \in Perms(S \ {x})} : x \in S }

Range(s) == {s[i] : i \in DOMAIN s}

\* new Date().toISOString() at clock reading n.
ISO == <<"g1", "g2", "g3", "g4", "g5", "g6", "g7", "g8", "g9", "g10", "g11", "g12">>
toISOString(n) == ISO[n]

\* ---------------------------------------------------------------- producer
\* A message as SendMessage leaves it: visible, never received.
NewMessage(body) == [body |-> body, st |-> "visible", rc |-> 0]

\* The status the producer answers with, ignoring a failed SendMessage.
producerStatus_IgnoresSendFailure(body, sendOk) ==
  IF body.orderId = Absent THEN 500 ELSE 200

\* The status POST /orders answers with; sendOk: the SendMessage call
\* succeeds.  A missing body, a missing orderId and a failed send all end in
\* the catch block.
producerStatus(body, sendOk) ==
  IF body.orderId = Absent \/ ~sendOk THEN 500 ELSE 200

\* POST /orders: a request without a body or without orderId is answered 500
\* and nothing is sent; otherwise the body is sent to the queue (which may
\* fail: 500) and the answer is 200.  No other field is looked at.
producerStep(body, sendOk) ==
  /\ nreq < MaxSubmit
  /\ nreq' = nreq + 1
  /\ httpResp' = producerStatus(body, sendOk)
  /\ queue' = IF body.orderId # Absent /\ sendOk
              THEN Append(queue, NewMessage(body))
              ELSE queue
  /\ UNCHANGED <<inv, now, store, bus, execs, dispatched, subs,
               unsub, delivered, scanResp, ui,
               hook, notified>>

producer ==
  \E body \in Requests, sendOk \in BOOLEAN : producerStep(body, sendOk)

\* ------------------------------------------------------------------- queue
\* Receivable without the redrive policy's limit.
Receivable_NoLimit == {m \in DOMAIN queue : queue[m].st = "visible"}

\* Messages a poll of the queue may return.
Receivable == {m \in DOMAIN queue : queue[m].st = "visible" /\ queue[m].rc < maxReceiveCount}

\* The event source mapping polls the queue and invokes the consumer with a
\* batch of up to batchSize messages; each becomes invisible (in flight) and
\* its receive count goes up.  Time passes between two invocations: the clock
\* (read only for an order without a timestamp) has advanced.  The instances
\* are interchangeable: the batch goes to the first idle one.
Receive(c) ==
  /\ inv[c] = Idle
  /\ \A d \in Consumers : d < c => inv[d] # Idle
  /\ \E S \in (SUBSET Receivable) \ {{}} :
       /\ Cardinality(S) <= batchSize
       /\ \E batch \in Perms(S) :
            /\ inv' = [inv EXCEPT ![c] = [batch |-> batch, idx |-> 1]]
            /\ now' = IF \E m \in S : queue[m].body.timestamp = Absent
                      THEN now + 1 ELSE now
            /\ queue' = [m \in DOMAIN queue |->
                           IF m \in S
                           THEN [queue[m] EXCEPT !.st = "inflight", !.rc = @ + 1]
                           ELSE queue[m]]
  /\ UNCHANGED <<nreq, httpResp, store, bus, execs, dispatched, subs,
               unsub, delivered, scanResp, ui,
               hook, notified>>

\* The redrive policy: a message that has been received maxReceiveCount times
\* and is visible again is moved to the dead-letter queue instead of being
\* received again.
Redrive(m) ==
  /\ m \in DOMAIN queue
  /\ queue[m].st = "visible"
  /\ queue[m].rc >= maxReceiveCount
  /\ queue' = [queue EXCEPT ![m].st = "dlq"]
  /\ UNCHANGED <<nreq, httpResp, inv, now, store, bus, execs, dispatched, subs,
               unsub, delivered, scanResp, ui,
               hook, notified>>

\* ------------------------------------------------------- workflow handlers
\* The key a workflow handler updates: { orderId, timestamp: event.timestamp }.
WorkflowKey(input) == <<input.orderId, input.timestamp>>

\* UpdateCommand throws when a key attribute is undefined.
KeyValid(input) == input.orderId # Absent /\ input.timestamp # Absent

\* UpdateCommand "SET #status = ..., <attr> = ...": an upsert that keeps the
\* item's other attributes, and creates the item when the key is new.
UpdateItem(table, key, status, newAttrs) ==
  IF key \in DOMAIN table
  THEN [table EXCEPT ![key] = [status |-> status, attrs |-> @.attrs \cup newAttrs]]
  ELSE (key :> [status |-> status, attrs |-> newAttrs]) @@ table

\* A field the JSON object does not carry at all (JSON.stringify drops an
\* undefined property) is a field outside the record's domain.
Has(obj, field) == field \in DOMAIN obj

\* validateOrder throws a TypeError while it builds validations when items
\* is undefined: items.every(...) is called on it.
validateThrows(input) == ~Has(input, "items")

\* validations with the lower bound of orderValue off by one.
validations_ValueAboveOne(input) ==
  [hasOrderId |-> input.orderId # Absent,
   hasValidValue |-> /\ Has(input, "orderValue")
                     /\ input.orderValue > 1
                     /\ input.orderValue < MaxOrderValue,
   hasItems |-> Len(input.items) > 0,
   itemsHavePrice |-> \A i \in DOMAIN input.items : input.items[i] > 0]

\* validateOrder's checks, for an input that has items.  An undefined
\* orderValue compares false; an item price of 0 stands for a price that is
\* zero or missing.
validations(input) ==
  [hasOrderId |-> input.orderId # Absent,
   hasValidValue |-> /\ Has(input, "orderValue")
                     /\ input.orderValue > 0
                     /\ input.orderValue < MaxOrderValue,
   hasItems |-> Len(input.items) > 0,
   itemsHavePrice |-> \A i \in DOMAIN input.items : input.items[i] > 0]

isValid(input) ==
  LET v == validations(input)
  IN v.hasOrderId /\ v.hasValidValue /\ v.hasItems /\ v.itemsHavePrice

\* Execution e moved to state st after running step.
Advance(e, step, st) == [e EXCEPT !.state = st, !.trace = Append(@, step)]

\* The tasks that have a catch (addCatch(handleFailureTask, States.ALL)).
Catches == {"ValidateOrder", "ProcessPayment", "UpdateInventory"}

\* Where the state machine goes when a task throws: a task with a catch goes
\* to Handle Failure; a task without one fails the execution ("Aborted").
OnError(step) == IF step \in Catches THEN "HandleFailure" ELSE "Aborted"

\* Execution e after its task step threw.
Throw(e, step) ==
  [e EXCEPT !.state = OnError(step), !.error = step, !.trace = Append(@, step)]

\* ValidationChoice wired past Process Payment.
ValidationChoice_SkipPayment(valid) == IF valid THEN "UpdateInventory" ELSE "HandleFailure"

\* The choice states.
ValidationChoice(valid) == IF valid THEN "ProcessPayment" ELSE "HandleFailure"
\* PaymentChoice without its otherwise branch.
PaymentChoice_NoOtherwise(paymentSuccess) == "UpdateInventory"

PaymentChoice(paymentSuccess) ==
  IF paymentSuccess THEN "UpdateInventory" ELSE "HandleFailure"

\* What validateOrder returns to the state machine.
validateResult(input) ==
  [valid |-> isValid(input), validationResult |-> validations(input)]

\* Validate Order, then the choice "Validation Successful?"; ddbOk: the
\* UpdateCommand call succeeds.
validateOrderStep(i, ddbOk) ==
  /\ execs[i].state = "ValidateOrder"
  /\ LET e == execs[i]
     IN IF ~validateThrows(e.input) /\ ddbOk /\ KeyValid(e.input)
        THEN /\ store' = UpdateItem(store, WorkflowKey(e.input),
                                    IF isValid(e.input) THEN "validated"
                                    ELSE "validation_failed",
                                    {"validationResult"})
             /\ execs' = [execs EXCEPT ![i] =
                  [Advance(e, "ValidateOrder", ValidationChoice(isValid(e.input)))
                     EXCEPT !.validation = <<validateResult(e.input)>>]]
        ELSE /\ store' = store
             /\ execs' = [execs EXCEPT ![i] = Throw(e, "ValidateOrder")]
  /\ UNCHANGED <<nreq, httpResp, queue, inv, now, bus, dispatched, subs,
               unsub, delivered, scanResp, ui,
               hook, notified>>

validateOrder(i) == \E ddbOk \in BOOLEAN : validateOrderStep(i, ddbOk)

\* Process Payment, then the choice "Payment Successful?".
processPayment(i) ==
  /\ execs[i].state = "ProcessPayment"
  /\ LET e == execs[i]
     IN \E paymentSuccess \in BOOLEAN, ddbOk \in BOOLEAN :
          IF ddbOk /\ KeyValid(e.input)
          THEN /\ store' = UpdateItem(store, WorkflowKey(e.input),
                                      IF paymentSuccess THEN "payment_processed"
                                      ELSE "payment_failed",
                                      {"paymentStatus", "transactionId"})
               /\ execs' = [execs EXCEPT ![i] =
                    [Advance(e, "ProcessPayment", PaymentChoice(paymentSuccess))
                       EXCEPT !.paymentSuccess = IF paymentSuccess THEN "true" ELSE "false"]]
          ELSE /\ store' = store
               /\ execs' = [execs EXCEPT ![i] =
                    Throw(e, "ProcessPayment")]
  /\ UNCHANGED <<nreq, httpResp, queue, inv, now, bus, dispatched, subs,
               unsub, delivered, scanResp, ui,
               hook, notified>>

\* Update Inventory.
updateInventory(i) ==
  /\ execs[i].state = "UpdateInventory"
  /\ LET e == execs[i]
     IN \E ddbOk \in BOOLEAN :
          IF ddbOk /\ KeyValid(e.input)
          THEN /\ store' = UpdateItem(store, WorkflowKey(e.input),
                                      "inventory_updated", {"inventoryUpdates"})
               /\ execs' = [execs EXCEPT ![i] =
                    Advance(e, "UpdateInventory", "SendNotification")]
          ELSE /\ store' = store
               /\ execs' = [execs EXCEPT ![i] =
                    Throw(e, "UpdateInventory")]
  /\ UNCHANGED <<nreq, httpResp, queue, inv, now, bus, dispatched, subs,
               unsub, delivered, scanResp, ui,
               hook, notified>>

\* Publish that sends nothing.
Publish_Dropped(e, eventType) == e

\* Execution e after its task published a message with this eventType
\* attribute to the notifications topic.
Publish(e, eventType) == [e EXCEPT !.published = @ \cup {eventType}]

\* Send Notification: publish OrderCompleted, then mark the order completed.
\* snsOk: the PublishCommand call succeeds; ddbOk: the UpdateCommand call.
sendNotificationStep(i, snsOk, ddbOk) ==
  /\ execs[i].state = "SendNotification"
  /\ LET e == execs[i]
     IN   IF ~snsOk
          THEN /\ store' = store
               /\ execs' = [execs EXCEPT ![i] = Throw(e, "SendNotification")]
          ELSE IF ddbOk /\ KeyValid(e.input)
          THEN /\ store' = UpdateItem(store, WorkflowKey(e.input), "completed",
                                      {"notificationSent", "completedAt"})
               /\ execs' = [execs EXCEPT ![i] =
                    Advance(Publish(e, "OrderCompleted"), "SendNotification", "Succeeded")]
          ELSE /\ store' = store
               /\ execs' = [execs EXCEPT ![i] = Throw(Publish(e, "OrderCompleted"), "SendNotification")]
  /\ UNCHANGED <<nreq, httpResp, queue, inv, now, bus, dispatched, subs,
               unsub, delivered, scanResp, ui,
               hook, notified>>

sendNotification(i) ==
  \E snsOk \in BOOLEAN, ddbOk \in BOOLEAN : sendNotificationStep(i, snsOk, ddbOk)

\* Handle Failure: publish OrderFailed, then mark the order failed; next is
\* the Fail state "Order Processing Failed".
handleFailureStep(i, snsOk, ddbOk) ==
  /\ execs[i].state = "HandleFailure"
  /\ LET e == execs[i]
     IN   IF ~snsOk
          THEN /\ store' = store
               /\ execs' = [execs EXCEPT ![i] = Throw(e, "HandleFailure")]
          ELSE IF ddbOk /\ KeyValid(e.input)
          THEN /\ store' = UpdateItem(store, WorkflowKey(e.input), "failed",
                                      {"failureReason", "failedAt"})
               /\ execs' = [execs EXCEPT ![i] =
                    Advance(Publish(e, "OrderFailed"), "HandleFailure", "Failed")]
          ELSE /\ store' = store
               /\ execs' = [execs EXCEPT ![i] = Throw(Publish(e, "OrderFailed"), "HandleFailure")]
  /\ UNCHANGED <<nreq, httpResp, queue, inv, now, bus, dispatched, subs,
               unsub, delivered, scanResp, ui,
               hook, notified>>

handleFailure(i) ==
  \E snsOk \in BOOLEAN, ddbOk \in BOOLEAN : handleFailureStep(i, snsOk, ddbOk)

\* ------------------------------------------------------------ event router
\* HighValueOrderRule with an inclusive threshold.
HighValueOrderRule_Inclusive(event) ==
  /\ event.source = "order.system"
  /\ event.detailType = "Order Created"
  /\ Has(event.detail, "orderValue")
  /\ event.detail.orderValue >= HighValueThreshold

\* HighValueOrderRule that takes a missing orderValue for a match.
HighValueOrderRule_MissingMatches(event) ==
  /\ event.source = "order.system"
  /\ event.detailType = "Order Created"
  /\ Has(event.detail, "orderValue") => event.detail.orderValue > HighValueThreshold

\* The event patterns of the rules on OrderEventBus.  A pattern on a field
\* the detail does not carry does not match.
HighValueOrderRule(event) ==
  /\ event.source = "order.system"
  /\ event.detailType = "Order Created"
  /\ Has(event.detail, "orderValue")
  /\ event.detail.orderValue > HighValueThreshold

OrderCreatedRule(event) ==
  /\ event.source = "order.system"
  /\ event.detailType = "Order Created"

UrgentOrderRule(event) ==
  /\ event.source = "order.system"
  /\ event.detailType = "Order Created"
  /\ Has(event.detail, "priority")
  /\ event.detail.priority = "urgent"

FailedOrderRule(event) ==
  /\ event.source = "order.system"
  /\ event.detailType = "Order Failed"

\* PutEvents: the bus accepts the event.
PutEvents(b, event) == BagAdd(b, event)

\* Targets of a router that stops at the first matching rule.
Targets_FirstMatch(event) ==
  IF HighValueOrderRule(event) THEN {"triggerWorkflow"}
  ELSE IF OrderCreatedRule(event) THEN {"notifyOrderCreated"}
  ELSE IF UrgentOrderRule(event) THEN {"notifyUrgentOrder"}
  ELSE IF FailedOrderRule(event) THEN {"OrderNotificationsTopic"}
  ELSE {}

\* The target each rule invokes (addTarget).
Targets(event) ==
  {t \in {"triggerWorkflow", "notifyOrderCreated", "notifyUrgentOrder",
          "OrderNotificationsTopic"} :
     \/ t = "triggerWorkflow" /\ HighValueOrderRule(event)
     \/ t = "notifyOrderCreated" /\ OrderCreatedRule(event)
     \/ t = "notifyUrgentOrder" /\ UrgentOrderRule(event)
     \/ t = "OrderNotificationsTopic" /\ FailedOrderRule(event)}

\* triggerWorkflow: the input of the execution it starts, serialised with
\* JSON.stringify: the fields it copies from the detail, those present.
executionInput(detail) ==
  [f \in DOMAIN detail \cap {"orderId", "orderValue", "priority", "items", "timestamp"}
     |-> detail[f]]

NewExecution(detail) ==
  [input |-> executionInput(detail), state |-> "ValidateOrder",
   paymentSuccess |-> "unset", error |-> "none", published |-> {},
   validation |-> <<>>,
   trace |-> <<>>]

\* triggerWorkflow, the target of HighValueOrderRule: start an execution of
\* OrderWorkflow named execution-<orderId>-<Date.now()>.  A StartExecution
\* failure is rethrown, and the invocation is lost once its retries are used
\* up.
triggerWorkflow(executions, event, startOk) ==
  IF startOk THEN Append(executions, NewExecution(event.detail)) ELSE executions

\* The bus delivers one event to the rules: every rule whose pattern matches
\* invokes its target, which is recorded in dispatched.
\* startOk: the StartExecutionCommand call of triggerWorkflow succeeds.
RouteStep(event, startOk) ==
  /\ BagCount(bus, event) > 0
  /\ bus' = BagRemove(bus, event)
  /\ dispatched' = dispatched \cup {<<t, event>> : t \in Targets(event)}
  /\ IF "triggerWorkflow" \in Targets(event)
     THEN /\ startOk => Len(execs) < MaxExec
          /\ execs' = triggerWorkflow(execs, event, startOk)
     ELSE execs' = execs
  /\ UNCHANGED <<nreq, httpResp, queue, inv, now, store, subs,
               unsub, delivered, scanResp, ui,
               hook, notified>>

Route(event) == \E startOk \in BOOLEAN : RouteStep(event, startOk)

\* ---------------------------------------------------------------- consumer
\* The sort key the consumer writes: the order's timestamp, or the current
\* time when the order carries none.
ConsumerTimestamp(body, clock) ==
  IF body.timestamp # Absent THEN body.timestamp ELSE toISOString(clock)

\* PutCommand: the item replaces whatever is stored under its key.
PutItem(table, body, ts) ==
  (<<body.orderId, ts>> :> [status |-> body.status, attrs |-> {"processedAt"}])
    @@ table

\* The "Order Created" event the consumer publishes.
OrderCreated(body) ==
  [source |-> "order.system", detailType |-> "Order Created",
   detail |-> [orderId |-> body.orderId, orderValue |-> body.orderValue,
               priority |-> body.priority, status |-> body.status,
               items |-> body.items, timestamp |-> body.timestamp]]

\* The invocation throws: no message of the batch is deleted, and all of them
\* become visible again.
ReleaseBatch(q, batch) ==
  [m \in DOMAIN q |->
     IF m \in Range(batch) THEN [q[m] EXCEPT !.st = "visible"] ELSE q[m]]

\* The invocation returns: every message of the batch is deleted.
DeleteBatch(q, batch) ==
  [m \in DOMAIN q |->
     IF m \in Range(batch) THEN [q[m] EXCEPT !.st = "deleted"] ELSE q[m]]

\* consumerOutcome with an outer catch that logs and does not rethrow.
consumerOutcome_Swallow(putOk, eventOk) == "ok"

\* consumerOutcome without the inner try/catch around PutEvents.
consumerOutcome_NoInnerCatch(putOk, eventOk) ==
  IF ~putOk \/ ~eventOk THEN "throw" ELSE "ok"

\* How one iteration of the loop over event.Records ends: the outer catch
\* rethrows a PutCommand failure ("throw"); the inner catch logs a PutEvents
\* failure and the iteration goes on ("ok").
consumerOutcome(putOk, eventOk) == IF ~putOk THEN "throw" ELSE "ok"

\* One iteration of the consumer's loop, given how its two calls end: persist
\* the order, then publish the "Order Created" event.  A throw fails the
\* invocation (nothing is deleted); after the last record the handler returns
\* (the batch is deleted).
Iteration(c, putOk, eventOk) ==
  /\ inv[c] # Idle
  /\ LET batch == inv[c].batch
         body == queue[batch[inv[c].idx]].body
     IN /\ store' = IF putOk
                    THEN PutItem(store, body, ConsumerTimestamp(body, now))
                    ELSE store
        /\ bus' = IF putOk /\ eventOk THEN PutEvents(bus, OrderCreated(body)) ELSE bus
        /\ IF consumerOutcome(putOk, eventOk) = "throw"
           THEN /\ queue' = ReleaseBatch(queue, batch)
                /\ inv' = [inv EXCEPT ![c] = Idle]
           ELSE IF inv[c].idx = Len(batch)
           THEN /\ queue' = DeleteBatch(queue, batch)
                /\ inv' = [inv EXCEPT ![c] = Idle]
           ELSE /\ queue' = queue
                /\ inv' = [inv EXCEPT ![c].idx = @ + 1]
  /\ UNCHANGED <<nreq, httpResp, now, execs, dispatched, subs,
               unsub, delivered, scanResp, ui,
               hook, notified>>

consumer(c) == \E putOk \in BOOLEAN, eventOk \in BOOLEAN : Iteration(c, putOk, eventOk)

\* ----------------------------------------------------- notification registry
\* The preference keys of a subscribe request and the eventType each one
\* stands for in the filter policy.
PrefKeys == {"orderCreated", "orderCompleted", "orderFailed", "orderUrgent"}

PrefType(key) ==
  CASE key = "orderCreated" -> "OrderCreated"
    [] key = "orderCompleted" -> "OrderCompleted"
    [] key = "orderFailed" -> "OrderFailed"
    [] key = "orderUrgent" -> "OrderUrgent"

\* Characters of an email address that the pattern tells apart: white
\* space, "@", "." and any other character.
NotSpaceOrAt(s, from, to) ==
  /\ from <= to
  /\ \A n \in from..to : s[n] \notin {" ", "@"}

\* emailRegex.test(email) for /^[^\s@]+@[^\s@]+\.[^\s@]+$/ ; an email is a
\* sequence of characters.
\* A test that asks only for an "@".
emailRegexTest_NeedsOnlyAt(s) == \E a \in DOMAIN s : s[a] = "@"

emailRegexTest(s) ==
  \E a \in DOMAIN s, d \in DOMAIN s :
    /\ s[a] = "@"
    /\ s[d] = "."
    /\ NotSpaceOrAt(s, 1, a - 1)
    /\ NotSpaceOrAt(s, a + 1, d - 1)
    /\ NotSpaceOrAt(s, d + 1, Len(s))

\* The eventTypes list subscribeEmail builds from the preferences: every type
\* not set to false, and all four when that leaves none.
\* The filter that lists every event type whatever the preferences say.
eventTypes_IgnoresFalse(preferences) == {PrefType(k) : k \in PrefKeys}

\* The event types of the subscription's filter policy: those whose
\* preference is not false; all of them when none is left.
eventTypes(preferences) ==
  LET chosen == {PrefType(k) : k \in {key \in PrefKeys :
                    ~(Has(preferences, key) /\ preferences[key] = FALSE)}}
  IN IF chosen = {} THEN {PrefType(k) : k \in PrefKeys} ELSE chosen

\* Bodies of POST /notifications/subscribe: with or without an email (valid
\* or malformed), preferences giving each key true, false or not at all.
SubscribeEmails ==
  { <<"a", "@", "b", ".", "c">>, <<"d", "@", "b", ".", "c">>,
    <<"a", "@", "b">>, <<"a", " ", "@", "b", ".", "c">> }

Preferences ==
  UNION {[keys -> BOOLEAN] : keys \in SUBSET PrefKeys}

SubscribeBodies ==
  [preferences : Preferences]
    \cup [email : SubscribeEmails, preferences : Preferences]

\* Subscriptions of the registry that were not removed.  A subscription's
\* position in subs stands for its ARN; a removed one keeps its position.
Live(registry) == {n \in DOMAIN registry : registry[n].status # "Deleted"}

\* Live subscriptions including the removed ones.
ByEndpoint_IncludesDeleted(registry, endpoint) ==
  {n \in DOMAIN registry : registry[n].endpoint = endpoint}

\* The subscriptions ListSubscriptionsByTopic returns for an endpoint.
ByEndpoint(registry, endpoint) ==
  {n \in Live(registry) : registry[n].endpoint = endpoint}

\* SNS accepts a Subscribe call for an endpoint that has no subscription, and
\* one that repeats the attributes of the endpoint's subscription; it
\* rejects a call that gives an existing subscription other attributes.
SubscribeAccepted(registry, endpoint, filter) ==
  \A n \in ByEndpoint(registry, endpoint) : registry[n].filter = filter

\* SNS Subscribe that creates the subscription already confirmed.
Subscribe_Confirmed(registry, endpoint, filter) ==
  IF ByEndpoint(registry, endpoint) # {}
  THEN registry
  ELSE Append(registry, [endpoint |-> endpoint, filter |-> filter,
                         status |-> "Confirmed"])

\* SNS Subscribe for an endpoint: a new endpoint gets a subscription that
\* waits for confirmation; for an endpoint that already has one the service
\* returns the existing subscription and the registry stays as it is.
Subscribe(registry, endpoint, filter) ==
  IF ByEndpoint(registry, endpoint) # {}
  THEN registry
  ELSE Append(registry, [endpoint |-> endpoint, filter |-> filter,
                         status |-> "PendingConfirmation"])

\* subscribeEmail; snsOk: the service is available to the SubscribeCommand.
subscribeEmailStep(body, snsOk) ==
  /\ IF ~Has(body, "email") \/ ~emailRegexTest(body.email)
     THEN /\ httpResp' = 400
          /\ subs' = subs
     ELSE IF snsOk /\ SubscribeAccepted(subs, body.email, eventTypes(body.preferences))
     THEN /\ ByEndpoint(subs, body.email) = {} => Len(subs) < MaxSubs
          /\ httpResp' = 200
          /\ subs' = Subscribe(subs, body.email, eventTypes(body.preferences))
     ELSE /\ httpResp' = 500
          /\ subs' = subs
  /\ UNCHANGED <<nreq, queue, inv, now, store, bus, execs, dispatched,
               unsub, delivered, scanResp, ui,
               hook, notified>>

subscribeEmail ==
  \E body \in SubscribeBodies, snsOk \in BOOLEAN : subscribeEmailStep(body, snsOk)

\* The requests the topic is exercised with when subscriptions are also
\* confirmed, removed and published to: no address, two valid ones and two
\* malformed ones, with all event types and without OrderUrgent.
TopicPreferences == {<<>>, [orderUrgent |-> FALSE]}

TopicBodies ==
  [preferences : TopicPreferences]
    \cup [email : {<<"a", "@", "b", ".", "c">>, <<"d", "@", "b", ".", "c">>,
                   <<"a", "@", "b">>, <<"a", " ", "@", "b", ".", "c">>},
          preferences : TopicPreferences]

subscribeTopic ==
  \E body \in TopicBodies, snsOk \in BOOLEAN : subscribeEmailStep(body, snsOk)

\* The recipient follows the link of the confirmation email.
confirmSubscription(n) ==
  /\ n \in DOMAIN subs
  /\ subs[n].status = "PendingConfirmation"
  /\ subs' = [subs EXCEPT ![n].status = "Confirmed"]
  /\ UNCHANGED <<nreq, httpResp, queue, inv, now, store, bus, execs, dispatched,
               unsub, delivered, scanResp, ui,
               hook, notified>>

\* Bodies of POST /notifications/unsubscribe: without an email, or with one.
UnsubscribeBodies == {<<>>} \cup [email : SubscribeEmails]

\* The SubscriptionArn ListSubscriptionsByTopic reports: the ARN of a
\* confirmed subscription; for one that waits for confirmation the
\* placeholder "PendingConfirmation", written 0 here, which is no ARN.
ListedArn(registry, n) ==
  IF registry[n].status = "PendingConfirmation" THEN 0 ELSE n

\* unsubscribeEmail up to its ListSubscriptionsByTopic call; listOk: the call
\* succeeds.  No email: 400.  No subscription with the email: 404.
unsubscribeListStep(w, body, listOk) ==
  /\ unsub[w].pc = "idle"
  /\ IF ~Has(body, "email")
     THEN httpResp' = 400 /\ unsub' = unsub
     ELSE IF ~listOk
     THEN httpResp' = 500 /\ unsub' = unsub
     ELSE IF ByEndpoint(subs, body.email) = {}
     THEN httpResp' = 404 /\ unsub' = unsub
     ELSE /\ httpResp' = httpResp
          /\ unsub' = [unsub EXCEPT ![w] =
               [pc |-> "found", email |-> body.email,
                arn |-> ListedArn(subs, CHOOSE n \in ByEndpoint(subs, body.email) : TRUE)]]
  /\ UNCHANGED <<nreq, queue, inv, now, store, bus, execs, dispatched, subs,
               delivered, scanResp, ui,
               hook, notified>>

unsubscribeList(w) ==
  \E body \in UnsubscribeBodies, listOk \in BOOLEAN :
    unsubscribeListStep(w, body, listOk)

\* unsubscribeEmail from its UnsubscribeCommand on; snsOk: the service is
\* available.  The service rejects what is no ARN; for the ARN of a
\* subscription that is gone it answers without an error or with NotFound.
unsubscribeSendStep(w, snsOk) ==
  LET arn == unsub[w].arn IN
  /\ unsub[w].pc = "found"
  /\ unsub' = [unsub EXCEPT ![w] = NoCall]
  /\ IF snsOk /\ arn \in Live(subs)
     THEN /\ httpResp' = 200
          /\ subs' = [subs EXCEPT ![arn].status = "Deleted"]
     ELSE IF snsOk /\ arn \in DOMAIN subs
     THEN /\ httpResp' \in {200, 500}
          /\ subs' = subs
     ELSE /\ httpResp' = 500
          /\ subs' = subs
  /\ UNCHANGED <<nreq, queue, inv, now, store, bus, execs, dispatched,
               delivered, scanResp, ui,
               hook, notified>>

unsubscribeSend(w) == \E snsOk \in BOOLEAN : unsubscribeSendStep(w, snsOk)

\* The eventType attribute of the messages published to the topic: the four
\* the handlers set, and "none" for the failure rule's events, which the
\* topic receives as a rule target without message attributes.
PublishedTypes ==
  {"OrderCreated", "OrderUrgent", "OrderCompleted", "OrderFailed", "none"}

\* The endpoints a message goes to, whether confirmed or not.
Recipients_IgnoreStatus(registry, eventType) ==
  {registry[n].endpoint : n \in {k \in Live(registry) :
      eventType \in registry[k].filter}}

\* The endpoints the topic delivers a message to: the confirmed subscriptions
\* whose filter policy lists the message's eventType.
Recipients(registry, eventType) ==
  {registry[n].endpoint : n \in {k \in Live(registry) :
      /\ registry[k].status = "Confirmed"
      /\ eventType \in registry[k].filter}}

\* A message with the given eventType attribute is published to the topic.
publish(eventType) ==
  /\ delivered' = [eventType |-> eventType, to |-> Recipients(subs, eventType)]
  /\ UNCHANGED <<nreq, httpResp, queue, inv, now, store, bus, execs, dispatched,
               subs, unsub, scanResp, ui,
               hook, notified>>

\* ------------------------------------------------------------------ orders
\* The items one Scan call reads: a call reads up to 1 MB of the table and
\* reports where it stopped; that much of the table is ScanPageItems items
\* here.
ScanPageItems == 2

\* The pages a single ScanCommand without a start key can return: the whole
\* table while it fits in one page, else one page's worth of it (the scan
\* order is the service's).
ScanCommand(table) ==
  IF Cardinality(DOMAIN table) <= ScanPageItems
  THEN {DOMAIN table}
  ELSE {page \in SUBSET DOMAIN table : Cardinality(page) = ScanPageItems}

\* GET /orders; scanOk: the ScanCommand call succeeds.  The response holds
\* result.Items of the one call; LastEvaluatedKey is not looked at.
getOrdersStep(scanOk) ==
  /\ IF scanOk
     THEN \E page \in ScanCommand(store) :
            scanResp' = [status |-> 200, orders |-> [k \in page |-> store[k]]]
     ELSE scanResp' = [status |-> 500, orders |-> <<>>]
  /\ UNCHANGED <<nreq, httpResp, queue, inv, now, store, bus, execs, dispatched,
               subs, unsub, delivered, ui,
               hook, notified>>

getOrders == \E scanOk \in BOOLEAN : getOrdersStep(scanOk)

\* ----------------------------------------------------------------- browser
\* The orderIds typed into the order form.
FormOrderIds == {"T1", "T2"}

\* setOrders(prev => prev.map(order => order.orderId === orderId
\*                                      ? {...order, status} : order))
SetStatus(orders, orderId, status) ==
  [n \in DOMAIN orders |->
     IF orders[n].orderId = orderId
     THEN [orders[n] EXCEPT !.status = status]
     ELSE orders[n]]

\* handleOrderSubmit up to the await: the form is disabled while a call is in
\* flight; the new order is put in front of the list as "submitted".
handleOrderSubmit(orderId) ==
  /\ ui.call = "none"
  /\ ui.nextId <= MaxTracked
  /\ ui' = [ui EXCEPT
       !.orders = <<[id |-> ui.nextId, orderId |-> orderId, status |-> "submitted"]>>
                    \o ui.orders,
       !.call = orderId,
       !.nextId = ui.nextId + 1]
  /\ UNCHANGED <<nreq, httpResp, queue, inv, now, store, bus, execs, dispatched,
               subs, unsub, delivered, scanResp,
               hook, notified>>

\* handleOrderSubmit after the await; ok: ApiService.submitOrder resolved.
\* Then every order with the submitted orderId becomes "processing" and a
\* timer is set; else (the call threw) every such order becomes "failed".
submitSettledStep(ok) ==
  /\ ui.call # "none"
  /\ ui' = IF ok
           THEN [ui EXCEPT !.orders = SetStatus(ui.orders, ui.call, "processing"),
                           !.timers = Append(ui.timers, ui.call),
                           !.call = "none"]
           ELSE [ui EXCEPT !.orders = SetStatus(ui.orders, ui.call, "failed"),
                           !.call = "none"]
  /\ UNCHANGED <<nreq, httpResp, queue, inv, now, store, bus, execs, dispatched,
               subs, unsub, delivered, scanResp,
               hook, notified>>

submitSettled == \E ok \in BOOLEAN : submitSettledStep(ok)

\* The setTimeout callback of a submission: every order with its orderId
\* becomes "completed".
completionTimer(t) ==
  /\ t \in DOMAIN ui.timers
  /\ ui' = [ui EXCEPT
       !.orders = SetStatus(ui.orders, ui.timers[t], "completed"),
       !.timers = [n \in 1..(Len(ui.timers) - 1) |->
                     IF n < t THEN ui.timers[n] ELSE ui.timers[n + 1]]]
  /\ UNCHANGED <<nreq, httpResp, queue, inv, now, store, bus, execs, dispatched,
               subs, unsub, delivered, scanResp,
               hook, notified>>

\* handleClearHistory: the list is emptied; calls and timers go on.
handleClearHistory ==
  /\ ui.orders # <<>>
  /\ ui' = [ui EXCEPT !.orders = <<>>]
  /\ UNCHANGED <<nreq, httpResp, queue, inv, now, store, bus, execs, dispatched,
               subs, unsub, delivered, scanResp,
               hook, notified>>

\* ---------------------------------------------------------------- keyboard
\* String.prototype.toLowerCase on the key names used here.
toLowerCase(key) ==
  IF key = "N" THEN "n"
  ELSE IF key = "S" THEN "s"
  ELSE IF key = "Escape" THEN "escape"
  ELSE key

\* !!shortcut.flag: an omitted modifier counts as false.
Flag(shortcut, flag) == Has(shortcut, flag) /\ shortcut[flag]

\* A comparison that looks at the key alone.
ShortcutMatches_KeyOnly(shortcut, event) ==
  toLowerCase(event.key) = toLowerCase(shortcut.key)

\* keyMatches && ctrlMatches && shiftMatches && altMatches && metaMatches
ShortcutMatches(shortcut, event) ==
  /\ toLowerCase(event.key) = toLowerCase(shortcut.key)
  /\ Flag(shortcut, "ctrlKey") = event.ctrlKey
  /\ Flag(shortcut, "shiftKey") = event.shiftKey
  /\ Flag(shortcut, "altKey") = event.altKey
  /\ Flag(shortcut, "metaKey") = event.metaKey

RECURSIVE RunFrom(_, _, _)
\* The loop "for (const shortcut of shortcuts)" from position n on: the
\* actions it runs, in order; it breaks after the first match.
RunFrom(shortcuts, event, n) ==
  IF n > Len(shortcuts) THEN <<>>
  ELSE IF ShortcutMatches(shortcuts[n], event) THEN <<n>>
  ELSE RunFrom(shortcuts, event, n + 1)

\* handleKeyDown: the positions of the shortcuts whose action ran.
handleKeyDown(shortcuts, isEnabled, event) ==
  IF ~isEnabled THEN <<>>
  ELSE IF event.tagName \in {"INPUT", "TEXTAREA", "SELECT"} /\ event.key # "Escape"
  THEN <<>>
  ELSE RunFrom(shortcuts, event, 1)

\* Shortcut configurations: modifiers given, given as false, or left out; two
\* that differ only in the case of the key.
ShortcutChoices ==
  { [key |-> "n", ctrlKey |-> TRUE],
    [key |-> "N", ctrlKey |-> TRUE, shiftKey |-> FALSE],
    [key |-> "n", ctrlKey |-> TRUE, shiftKey |-> TRUE],
    [key |-> "Escape", metaKey |-> FALSE, altKey |-> FALSE] }

\* keydown events: key, modifiers, and the element that has the focus.
KeyEvents ==
  [key : {"n", "N", "Escape"}, ctrlKey : BOOLEAN, shiftKey : BOOLEAN,
   altKey : BOOLEAN, metaKey : BOOLEAN,
   tagName : {"DIV", "INPUT", "SELECT"}]

\* A keydown event reaches the window; the hook's listener, if any, runs.
keydown(event) ==
  /\ hook' = [hook EXCEPT !.event = event,
                          !.ran = handleKeyDown(hook.shortcuts, hook.isEnabled, event)]
  /\ UNCHANGED <<nreq, httpResp, queue, inv, now, store, bus, execs, dispatched,
               subs, unsub, delivered, scanResp, ui, notified>>

\* ---------------------------------------------------------- notify handlers
\* The functions the created and urgent rules invoke, and the eventType
\* attribute each one publishes with.
NotifyHandlers == {"notifyOrderCreated", "notifyUrgentOrder"}

NotifyType(target) ==
  IF target = "notifyOrderCreated" THEN "OrderCreated" ELSE "OrderUrgent"

\* Building the message throws a TypeError when the detail has no orderValue
\* (detail.orderValue.toFixed(2)) or no items (detail.items.length).
notifyThrows(detail) == ~Has(detail, "orderValue") \/ ~Has(detail, "items")

\* How an invocation of a notify handler ends; snsOk: the PublishCommand
\* call succeeds.  The catch block logs and rethrows.
notifyOutcome(detail, snsOk) ==
  IF ~notifyThrows(detail) /\ snsOk THEN "published" ELSE "threw"

\* notifyOrderCreated / notifyUrgentOrder, invoked by its rule for an event.
notifyStep(target, event, snsOk) ==
  /\ target \in NotifyHandlers
  /\ <<target, event>> \in dispatched
  /\ ~\E o \in {"published", "threw"} : <<target, event, o>> \in notified
  /\ notified' = notified \cup {<<target, event, notifyOutcome(event.detail, snsOk)>>}
  /\ delivered' = IF notifyOutcome(event.detail, snsOk) = "published"
                  THEN [eventType |-> NotifyType(target),
                        to |-> Recipients(subs, NotifyType(target))]
                  ELSE delivered
  /\ UNCHANGED <<nreq, httpResp, queue, inv, now, store, bus, execs, dispatched,
               subs, unsub, scanResp, ui, hook>>

notify(target, event) == \E snsOk \in BOOLEAN : notifyStep(target, event, snsOk)

\* ---------------------------------------------------------- specification
Events == {OrderCreated(b) : b \in Orders}

Next ==
  \/ producer
  \/ \E c \in Consumers : Receive(c)
  \/ \E c \in Consumers : consumer(c)
  \/ \E m \in 1..MaxSubmit : Redrive(m)
  \/ \E ev \in Events : Route(ev)
  \/ \E i \in DOMAIN execs : validateOrder(i)
  \/ \E i \in DOMAIN execs : processPayment(i)
  \/ \E i \in DOMAIN execs : updateInventory(i)
  \/ \E i \in DOMAIN execs : sendNotification(i)
  \/ \E i \in DOMAIN execs : handleFailure(i)

Spec == Init /\ [][Next]_vars

\* The queue and its consumer alone: events are published and never routed.
NextQueue ==
  \/ producer
  \/ \E c \in Consumers : Receive(c)
  \/ \E c \in Consumers : consumer(c)
  \/ \E m \in 1..MaxSubmit : Redrive(m)

SpecQueue == Init /\ [][NextQueue]_vars

RECURSIVE AfterConsume(_, _)
\* The table, the bus and the clock after the consumer handled the first n
\* orders of seq, one invocation each, without an error.
AfterConsume(seq, n) ==
  IF n = 0 THEN [store |-> <<>>, bus |-> <<>>, now |-> 1]
  ELSE LET prev == AfterConsume(seq, n - 1)
           body == seq[n]
           clock == IF body.timestamp = Absent THEN prev.now + 1 ELSE prev.now
       IN [store |-> PutItem(prev.store, body, ConsumerTimestamp(body, clock)),
           bus |-> PutEvents(prev.bus, OrderCreated(body)),
           now |-> clock]

\* The workflow alone, from the states the consumer leaves: up to MaxSubmit
\* orders persisted, their "Order Created" events published, their messages
\* deleted.
InitWorkflow ==
  \E k \in 1..MaxSubmit :
    \E seq \in [1..k -> Orders] :
      LET after == AfterConsume(seq, k) IN
      /\ nreq = k
      /\ httpResp = 200
      /\ queue = [m \in 1..k |-> [NewMessage(seq[m]) EXCEPT !.st = "deleted", !.rc = 1]]
      /\ inv = [c \in Consumers |-> Idle]
      /\ now = after.now
      /\ store = after.store
      /\ bus = after.bus
      /\ execs = <<>>
      /\ dispatched = {}
      /\ subs = <<>>
      /\ unsub = [w \in Unsubscribers |-> NoCall]
      /\ delivered = NoDelivery
      /\ scanResp = NoResponse
      /\ ui = NoOrders
      /\ hook = NoKeys
      /\ notified = {}

NextWorkflow ==
  \/ \E ev \in Events : Route(ev)
  \/ \E i \in DOMAIN execs : validateOrder(i)
  \/ \E i \in DOMAIN execs : processPayment(i)
  \/ \E i \in DOMAIN execs : updateInventory(i)
  \/ \E i \in DOMAIN execs : sendNotification(i)
  \/ \E i \in DOMAIN execs : handleFailure(i)

SpecWorkflow == InitWorkflow /\ [][NextWorkflow]_vars

\* The Validate Order step alone, on workflow inputs around the bounds of
\* its checks: with and without orderId, timestamp, orderValue and items.
WithField(obj, field, value) == (field :> value) @@ obj

ValidateInputs ==
  LET base == [orderId : {"T1", Absent}, timestamp : {"t0", Absent},
               priority : {"low"}]
      valued == base \cup {WithField(b, "orderValue", v) :
                             b \in base, v \in {-1, 0, 1, 9999, 10000, 10001}}
  IN valued \cup {WithField(b, "items", it) :
                    b \in valued,
                    it \in {<<>>, <<1>>, <<0>>, <<1, 0>>, <<0, 1>>, <<1, 1>>}}

InitValidate ==
  /\ nreq = 0
  /\ httpResp = 0
  /\ queue = <<>>
  /\ inv = [c \in Consumers |-> Idle]
  /\ now = 1
  /\ store = <<>>
  /\ bus = <<>>
  /\ \E input \in ValidateInputs : execs = <<NewExecution(input)>>
  /\ dispatched = {}
  /\ subs = <<>>
  /\ unsub = [w \in Unsubscribers |-> NoCall]
  /\ delivered = NoDelivery
  /\ scanResp = NoResponse
  /\ ui = NoOrders
  /\ hook = NoKeys
  /\ notified = {}

NextValidate == \E i \in DOMAIN execs : validateOrder(i)

SpecValidate == InitValidate /\ [][NextValidate]_vars

\* The router alone, on events around its rules: both detail types, values
\* around the threshold, with and without orderValue and priority.
RouterEvents ==
  LET base == {[orderId |-> "T1", timestamp |-> "t0", items |-> <<1>>]}
      valued == base \cup {WithField(d, "orderValue", v) :
                             d \in base, v \in {499, 500, 501, 999}}
      details == valued \cup {WithField(d, "priority", p) :
                                d \in valued, p \in {"urgent", "high"}}
  IN [source : {"order.system"}, detailType : {"Order Created", "Order Failed"},
      detail : details]

RECURSIVE PutAll(_, _)
\* The bus after PutEvents accepted the first n events of seq.
PutAll(seq, n) == IF n = 0 THEN <<>> ELSE PutEvents(PutAll(seq, n - 1), seq[n])

InitRouter ==
  /\ nreq = 0
  /\ httpResp = 0
  /\ queue = <<>>
  /\ inv = [c \in Consumers |-> Idle]
  /\ now = 1
  /\ store = <<>>
  /\ \E k \in 1..MaxEvents :
       \E seq \in [1..k -> RouterEvents] : bus = PutAll(seq, k)
  /\ execs = <<>>
  /\ dispatched = {}
  /\ subs = <<>>
  /\ unsub = [w \in Unsubscribers |-> NoCall]
  /\ delivered = NoDelivery
  /\ scanResp = NoResponse
  /\ ui = NoOrders
  /\ hook = NoKeys
  /\ notified = {}

NextRouter == \E ev \in RouterEvents : Route(ev)

SpecRouter == InitRouter /\ [][NextRouter]_vars

\* The notification registry alone.
NextRegistry == subscribeEmail

SpecRegistry == Init /\ [][NextRegistry]_vars

\* GET /orders alone, on the tables the consumer leaves after up to
\* MaxRecords orders.
InitOrders ==
  \E k \in 1..MaxRecords :
    \E seq \in [1..k -> Orders] :
      LET after == AfterConsume(seq, k) IN
      /\ nreq = k
      /\ httpResp = 200
      /\ queue = [m \in 1..k |-> [NewMessage(seq[m]) EXCEPT !.st = "deleted", !.rc = 1]]
      /\ inv = [c \in Consumers |-> Idle]
      /\ now = after.now
      /\ store = after.store
      /\ bus = <<>>
      /\ execs = <<>>
      /\ dispatched = {}
      /\ subs = <<>>
      /\ unsub = [w \in Unsubscribers |-> NoCall]
      /\ delivered = NoDelivery
      /\ scanResp = NoResponse
      /\ ui = NoOrders
      /\ hook = NoKeys
      /\ notified = {}

NextOrders == getOrders

SpecOrders == InitOrders /\ [][NextOrders]_vars

\* "Order Created" events with and without orderValue and items, urgent or
\* not.
NotifyEvents ==
  LET base == [orderId : {"T1"}, timestamp : {"t0"}, priority : {"urgent", "low"}]
      valued == base \cup {WithField(d, "orderValue", 999) : d \in base}
      details == valued \cup {WithField(d, "items", <<999>>) : d \in valued}
  IN [source : {"order.system"}, detailType : {"Order Created"}, detail : details]

\* The rules and the notify handlers alone, on a bus preloaded with up to
\* MaxEvents events.
InitNotify ==
  /\ nreq = 0
  /\ httpResp = 0
  /\ queue = <<>>
  /\ inv = [c \in Consumers |-> Idle]
  /\ now = 1
  /\ store = <<>>
  /\ \E k \in 1..MaxEvents :
       \E seq \in [1..k -> NotifyEvents] : bus = PutAll(seq, k)
  /\ execs = <<>>
  /\ dispatched = {}
  /\ subs = <<>>
  /\ unsub = [w \in Unsubscribers |-> NoCall]
  /\ delivered = NoDelivery
  /\ scanResp = NoResponse
  /\ ui = NoOrders
  /\ hook = NoKeys
  /\ notified = {}

NextNotify ==
  \/ \E ev \in NotifyEvents : Route(ev)
  \/ \E target \in NotifyHandlers, ev \in NotifyEvents : notify(target, ev)

SpecNotify == InitNotify /\ [][NextNotify]_vars

\* The keyboard hook alone, mounted with up to MaxShortcuts shortcuts,
\* enabled or not.
InitKeys ==
  /\ nreq = 0
  /\ httpResp = 0
  /\ queue = <<>>
  /\ inv = [c \in Consumers |-> Idle]
  /\ now = 1
  /\ store = <<>>
  /\ bus = <<>>
  /\ execs = <<>>
  /\ dispatched = {}
  /\ subs = <<>>
  /\ unsub = [w \in Unsubscribers |-> NoCall]
  /\ delivered = NoDelivery
  /\ scanResp = NoResponse
  /\ ui = NoOrders
  /\ \E k \in 0..MaxShortcuts :
       \E list \in [1..k -> ShortcutChoices], isEnabled \in BOOLEAN :
         hook = [NoKeys EXCEPT !.shortcuts = list, !.isEnabled = isEnabled]
  /\ notified = {}

NextKeys == \E event \in KeyEvents : keydown(event)

SpecKeys == InitKeys /\ [][NextKeys]_vars

\* The browser's order list alone; the backend is the outcome of the call.
NextUI ==
  \/ \E orderId \in FormOrderIds : handleOrderSubmit(orderId)
  \/ submitSettled
  \/ \E t \in 1..MaxTracked : completionTimer(t)
  \/ handleClearHistory

SpecUI == Init /\ [][NextUI]_vars

\* The topic with one unsubscribe invocation at a time: subscribe, confirm,
\* unsubscribe, publish.
NextTopic ==
  \/ subscribeTopic
  \/ \E n \in 1..MaxSubs : confirmSubscription(n)
  \/ unsubscribeList(1)
  \/ unsubscribeSend(1)
  \/ \E eventType \in PublishedTypes : publish(eventType)

SpecTopic == Init /\ [][NextTopic]_vars

\* The registry under concurrent subscribe and unsubscribe invocations.
NextConcurrent ==
  \/ subscribeTopic
  \/ \E n \in 1..MaxSubs : confirmSubscription(n)
  \/ \E w \in Unsubscribers : unsubscribeList(w)
  \/ \E w \in Unsubscribers : unsubscribeSend(w)

SpecConcurrent == Init /\ [][NextConcurrent]_vars

\* ------------------------------------------------------------------ claims
OrderIds == {b.orderId : b \in Orders}
RecordsOf(orderId) == {k \in DOMAIN store : k[1] = orderId}
MessagesOf(orderId) == {m \in DOMAIN queue : queue[m].body.orderId = orderId}
Terminal == {"Succeeded", "Failed", "Aborted"}
Stages == {"ValidateOrder", "ProcessPayment", "UpdateInventory", "SendNotification"}

\* C1: however often a message is delivered, it leaves one record of its
\* order in the table: the table never holds more records of an order than
\* messages were enqueued for it.
C1_OneRecordPerMessage ==
  \A o \in OrderIds : Cardinality(RecordsOf(o)) <= Cardinality(MessagesOf(o))

\* The status graph of C2: forward along the workflow, or diverted to a
\* failure status.
StatusEdges ==
  { <<"submitted", "validated">>, <<"submitted", "validation_failed">>,
    <<"validated", "payment_processed">>, <<"validated", "payment_failed">>,
    <<"payment_processed", "inventory_updated">>,
    <<"inventory_updated", "completed">> }
  \cup { <<st, "failed">> : st \in {"submitted", "validated", "validation_failed",
                                     "payment_processed", "payment_failed",
                                     "inventory_updated"} }

\* C2: every change of the status of the record of an order that was enqueued
\* once is an edge of the status graph: it never returns to an earlier status
\* and never skips a step.
C2_StatusOnlyForward ==
  [][\A k \in DOMAIN store :
       (Cardinality(MessagesOf(k[1])) = 1 /\ store'[k].status # store[k].status)
         => <<store[k].status, store'[k].status>> \in StatusEdges]_vars

\* C3: an execution in which a workflow stage threw is in Handle Failure, or
\* has gone through it.
C3_ThrowGoesToHandleFailure ==
  \A i \in DOMAIN execs :
    execs[i].error \in Stages
      => \/ execs[i].state = "HandleFailure"
         \/ "HandleFailure" \in Range(execs[i].trace)

\* C4: in an execution whose payment failed, the step after Process Payment
\* is Handle Failure, and Update Inventory and Send Notification never run.
C4_PaymentFailureSkipsFulfilment ==
  \A i \in DOMAIN execs :
    execs[i].paymentSuccess = "false"
      => LET t == execs[i].trace
             n == CHOOSE j \in DOMAIN t : t[j] = "ProcessPayment"
         IN /\ "UpdateInventory" \notin Range(t)
            /\ "SendNotification" \notin Range(t)
            /\ execs[i].state \notin {"UpdateInventory", "SendNotification", "Succeeded"}
            /\ IF Len(t) > n THEN t[n + 1] = "HandleFailure"
               ELSE execs[i].state = "HandleFailure"

C4_Witness ==
  \E i \in DOMAIN execs :
    /\ execs[i].paymentSuccess = "false"
    /\ execs[i].state = "Failed"

\* C5: a message is never received more than maxReceiveCount times; one that
\* came back from its maxReceiveCount-th failed delivery can only be moved to
\* the dead-letter queue, and once there it stays there.
C5_DeadLetterAfterThreeFailures ==
  [][\A m \in DOMAIN queue :
       /\ queue'[m].rc <= maxReceiveCount
       /\ queue[m].st = "dlq" => queue'[m] = queue[m]
       /\ (queue[m].st = "visible" /\ queue[m].rc = maxReceiveCount)
            => \/ queue'[m] = queue[m]
               \/ queue'[m] = [queue[m] EXCEPT !.st = "dlq"]]_vars

C5_Witness ==
  \E m \in DOMAIN queue : queue[m].st = "dlq" /\ queue[m].rc = maxReceiveCount

\* The table holds a record of the order of this message body.
Persisted(body) ==
  \E k \in DOMAIN store :
    /\ k[1] = body.orderId
    /\ body.timestamp # Absent => k[2] = body.timestamp

\* C6: every enqueued message is in the main queue (visible or in flight), in
\* the dead-letter queue, or was deleted and its order is in the table.
C6_NoMessageDropped ==
  \A m \in DOMAIN queue :
    \/ queue[m].st \in {"visible", "inflight", "dlq"}
    \/ queue[m].st = "deleted" /\ Persisted(queue[m].body)

C6_Witness ==
  /\ \E m \in DOMAIN queue : queue[m].st = "deleted"
  /\ \E m \in DOMAIN queue : queue[m].st = "dlq"

\* C7: an iteration whose PutCommand throws fails the invocation: no message
\* of the batch is deleted, the table is untouched, and the message is visible
\* again with its receive count kept -- to be received again while the count
\* is below maxReceiveCount.
C7_PersistFailureKeepsMessage ==
  [][\A c \in Consumers, eventOk \in BOOLEAN :
       Iteration(c, FALSE, eventOk)
         => LET m == inv[c].batch[inv[c].idx]
            IN /\ inv'[c] = Idle
               /\ store' = store
               /\ \A b \in Range(inv[c].batch) : queue'[b].st = "visible"
               /\ queue'[m].rc = queue[m].rc
               /\ queue[m].rc < maxReceiveCount => m \in Receivable']_vars

C7_Witness ==
  \E m \in DOMAIN queue :
    /\ queue[m].st = "visible"
    /\ queue[m].rc >= 1
    /\ ~Persisted(queue[m].body)

\* C8: an iteration whose PutEvents throws after the order was persisted
\* goes on as a successful one: the record is in the table as written,
\* nothing is published, and the handler moves to the next record or returns
\* (the batch is deleted).
C8_EventFailureIsSwallowed ==
  [][\A c \in Consumers :
       Iteration(c, TRUE, FALSE)
         => LET batch == inv[c].batch
                body == queue[batch[inv[c].idx]].body
                key == <<body.orderId, ConsumerTimestamp(body, now)>>
            IN /\ key \in DOMAIN store'
               /\ store'[key].status = body.status
               /\ bus' = bus
               /\ IF inv[c].idx = Len(batch)
                  THEN /\ inv'[c] = Idle
                       /\ \A b \in Range(batch) : queue'[b].st = "deleted"
                  ELSE /\ inv'[c] = [inv[c] EXCEPT !.idx = @ + 1]
                       /\ queue' = queue]_vars

C8_Witness ==
  \E m \in DOMAIN queue :
    /\ queue[m].st = "deleted"
    /\ Persisted(queue[m].body)
    /\ BagCount(bus, OrderCreated(queue[m].body)) = 0

\* C9: no two executions are started for the same order (orderId, timestamp)
\* when that order was enqueued once.
C9_OneExecutionPerOrder ==
  \A i, j \in DOMAIN execs :
    (i # j /\ Cardinality(MessagesOf(execs[i].input.orderId)) = 1)
      => WorkflowKey(execs[i].input) # WorkflowKey(execs[j].input)

\* Nothing is left to do: no invocation runs, every message is deleted or
\* dead-lettered, the bus is empty and every execution has ended.
Quiescent ==
  /\ \A c \in Consumers : inv[c] = Idle
  /\ \A m \in DOMAIN queue : queue[m].st \in {"deleted", "dlq"}
  /\ DOMAIN bus = {}
  /\ \A i \in DOMAIN execs : execs[i].state \in Terminal

\* C10: once the system has nothing left to do, every accepted order with
\* orderValue > 500 has a record with status completed or failed.
C10_HighValueOrderEndsTerminal ==
  Quiescent =>
    \A m \in DOMAIN queue :
      queue[m].body.orderValue > HighValueThreshold
        => \E k \in RecordsOf(queue[m].body.orderId) :
             store[k].status \in {"completed", "failed"}

\* The order of the workflow's steps.
StepOrder == <<"ValidateOrder", "ProcessPayment", "UpdateInventory", "SendNotification">>

C12_FailedIsRecorded ==
  [][\A i \in DOMAIN execs :
       (execs[i].state # "Failed" /\ execs'[i].state = "Failed")
         => LET key == WorkflowKey(execs[i].input)
            IN /\ key \in DOMAIN store'
               /\ store'[key].status = "failed"
               /\ {"failureReason", "failedAt"} \subseteq store'[key].attrs
               /\ "OrderFailed" \in execs'[i].published]_vars

C12_Witness ==
  \E i \in DOMAIN execs :
    /\ execs[i].state = "Failed"
    /\ execs[i].error \in Catches
    /\ "OrderFailed" \in execs[i].published
    /\ store[WorkflowKey(execs[i].input)].status = "failed"

\* C13: a step whose PublishCommand fails, while its table update would have
\* succeeded, still completes: Send Notification marks the order completed,
\* Handle Failure marks it failed.
C13_PublishFailureIsIsolated ==
  [][\A i \in DOMAIN execs :
       LET key == WorkflowKey(execs[i].input)
       IN /\ (sendNotificationStep(i, FALSE, TRUE) /\ KeyValid(execs[i].input))
               => /\ execs'[i].state = "Succeeded"
                  /\ key \in DOMAIN store' /\ store'[key].status = "completed"
          /\ (handleFailureStep(i, FALSE, TRUE) /\ KeyValid(execs[i].input))
               => /\ execs'[i].state = "Failed"
                  /\ key \in DOMAIN store' /\ store'[key].status = "failed"]_vars

\* The input is one the ingress accepts (it has an orderId) with
\* 0 < orderValue < 10000.
AcceptedInRange(input) ==
  /\ input.orderId # Absent
  /\ Has(input, "orderValue")
  /\ input.orderValue > 0
  /\ input.orderValue < 10000

C15_OutOfRangeValueIsInvalid ==
  [][\A i \in DOMAIN execs :
       LET input == execs[i].input
       IN (/\ validateOrderStep(i, TRUE)
           /\ KeyValid(input)
           /\ Has(input, "orderValue")
           /\ (input.orderValue = 0 \/ input.orderValue >= 10000))
            => /\ execs'[i].validation # <<>>
               /\ execs'[i].validation[1].valid = FALSE
               /\ execs'[i].validation[1].validationResult.hasValidValue = FALSE]_vars

\* C16: a Validate Order step whose table update succeeds yields a
\* validationResult with the four checks as booleans, and valid is their
\* conjunction -- also for an input whose items are empty or absent.
C16_FourChecksRecorded ==
  [][\A i \in DOMAIN execs :
       (validateOrderStep(i, TRUE) /\ KeyValid(execs[i].input))
         => /\ execs'[i].validation # <<>>
            /\ LET r == execs'[i].validation[1]
                   v == r.validationResult
               IN /\ DOMAIN v = {"hasOrderId", "hasValidValue", "hasItems", "itemsHavePrice"}
                  /\ \A f \in DOMAIN v : v[f] \in BOOLEAN
                  /\ r.valid = (v.hasOrderId /\ v.hasValidValue /\ v.hasItems
                                  /\ v.itemsHavePrice)]_vars

\* What the rules of the router are to do with an event, from its fields.
IsCreated(event) == event.detailType = "Order Created"
IsHighValue(event) ==
  IsCreated(event) /\ Has(event.detail, "orderValue") /\ event.detail.orderValue > 500
IsUrgent(event) ==
  IsCreated(event) /\ Has(event.detail, "priority") /\ event.detail.priority = "urgent"
Fired(target, event, d) == <<target, event>> \in d

\* C17: routing an Order Created event with orderValue > 500 invokes
\* triggerWorkflow, which starts one execution on that order when its
\* StartExecution call succeeds; routing any other event (orderValue 500 or
\* less) invokes no triggerWorkflow and starts no execution.
C17_HighValueStrictlyAbove500 ==
  [][\A ev \in RouterEvents, startOk \in BOOLEAN :
       RouteStep(ev, startOk)
         => IF IsHighValue(ev)
            THEN /\ Fired("triggerWorkflow", ev, dispatched')
                 /\ startOk => /\ Len(execs') = Len(execs) + 1
                               /\ execs'[Len(execs')].input.orderValue = ev.detail.orderValue
                               /\ execs'[Len(execs')].state = "ValidateOrder"
            ELSE /\ ~Fired("triggerWorkflow", ev, dispatched')
                 /\ execs' = execs]_vars

C17_Witness ==
  /\ Len(execs) = 1
  /\ execs[1].input.orderValue = 501
  /\ \E ev \in RouterEvents :
       /\ Has(ev.detail, "orderValue") /\ ev.detail.orderValue = 500
       /\ Fired("notifyOrderCreated", ev, dispatched)
       /\ ~Fired("triggerWorkflow", ev, dispatched)

\* C18: routing an event invokes the target of every rule whose predicate
\* holds and of no other rule: an urgent Order Created event with
\* orderValue > 500 gets triggerWorkflow, notifyOrderCreated and
\* notifyUrgentOrder.
C18_EveryMatchingRuleFires ==
  [][\A ev \in RouterEvents :
       Route(ev)
         => /\ \A prior \in dispatched : prior \in dispatched'
            /\ Fired("triggerWorkflow", ev, dispatched') <=> IsHighValue(ev)
            /\ Fired("notifyOrderCreated", ev, dispatched') <=> IsCreated(ev)
            /\ Fired("notifyUrgentOrder", ev, dispatched') <=> IsUrgent(ev)
            /\ Fired("OrderNotificationsTopic", ev, dispatched')
                 <=> ev.detailType = "Order Failed"
            /\ \A d \in dispatched' \ dispatched : d[2] = ev]_vars

C18_Witness ==
  \E ev \in RouterEvents :
    /\ IsHighValue(ev) /\ IsUrgent(ev)
    /\ {d[1] : d \in {x \in dispatched : x[2] = ev}}
         = {"triggerWorkflow", "notifyOrderCreated", "notifyUrgentOrder"}
    /\ Len(execs) = 1

\* C19: an event whose detail lacks orderValue (priority) is routed without
\* error; it does not fire the high-value (urgent) rule, and the other rules
\* fire as for any event.
C19_MissingFieldDoesNotMatch ==
  [][/\ \A ev \in DOMAIN bus : ENABLED Route(ev)
     /\ \A ev \in RouterEvents :
          Route(ev)
            => /\ ~Has(ev.detail, "orderValue")
                    => /\ ~Fired("triggerWorkflow", ev, dispatched')
                       /\ execs' = execs
                       /\ Fired("notifyOrderCreated", ev, dispatched') <=> IsCreated(ev)
                       /\ Fired("notifyUrgentOrder", ev, dispatched') <=> IsUrgent(ev)
               /\ ~Has(ev.detail, "priority")
                    => /\ ~Fired("notifyUrgentOrder", ev, dispatched')
                       /\ Fired("notifyOrderCreated", ev, dispatched') <=> IsCreated(ev)
                       /\ Fired("triggerWorkflow", ev, dispatched') <=> IsHighValue(ev)]_vars

C19_Witness ==
  \E ev \in RouterEvents :
    /\ ~Has(ev.detail, "orderValue")
    /\ IsUrgent(ev)
    /\ Fired("notifyOrderCreated", ev, dispatched)
    /\ Fired("notifyUrgentOrder", ev, dispatched)
    /\ execs = <<>>

\* C20: the subscription a subscribe request creates has as its filter
\* exactly the event types whose preference is not set to false.
C20_FilterIsNotFalsePreferences ==
  [][\A body \in SubscribeBodies, snsOk \in BOOLEAN :
       (subscribeEmailStep(body, snsOk) /\ Len(subs') = Len(subs) + 1)
         => subs'[Len(subs')].filter
              = {PrefType(k) : k \in {key \in PrefKeys :
                    ~(Has(body.preferences, key) /\ body.preferences[key] = FALSE)}}]_vars

\* C27 (as stated): every message in the queue carries the fields the ingress
\* is said to require; a submission without one of them (here: timestamp) is
\* never enqueued.
C27_MalformedNeverEnqueued ==
  \A m \in DOMAIN queue :
    /\ queue[m].body.orderId # Absent
    /\ queue[m].body.timestamp # Absent
    /\ Has(queue[m].body, "orderValue")
    /\ Has(queue[m].body, "priority")
    /\ Has(queue[m].body, "items")

\* C28: POST /orders answers 200 only when the step appended the request's
\* body to the queue, and answers 500 and leaves the queue as it was whenever
\* the request lacks a body or orderId or the send fails.
C28_OkOnlyAfterEnqueue ==
  [][\A body \in Requests, sendOk \in BOOLEAN :
       producerStep(body, sendOk) =>
         /\ httpResp' = 200 => queue' = Append(queue, NewMessage(body))
         /\ (body.orderId = Absent \/ ~sendOk) =>
              httpResp' = 500 /\ queue' = queue]_vars

\* One request was accepted and enqueued, a later one was answered 500.
C28_Witness ==
  /\ nreq = 2
  /\ httpResp = 500
  /\ Len(queue) = 1

\* C21: a successful subscribe request whose preferences set orderUrgent to
\* false (and leave orderCreated on) leaves the address with a subscription
\* that does not match OrderUrgent and matches OrderCreated; and the topic
\* never delivers an OrderUrgent message to a confirmed subscription that
\* does not list it, and delivers every OrderCreated message to a confirmed
\* subscription that lists it.
C21_UrgentOffStillGetsCreated ==
  [][/\ \A body \in TopicBodies :
          ( /\ Has(body, "email")
            /\ Has(body.preferences, "orderUrgent")
            /\ body.preferences.orderUrgent = FALSE
            /\ ~Has(body.preferences, "orderCreated")
            /\ subscribeEmailStep(body, TRUE)
            /\ httpResp' = 200 )
          => /\ \E n \in Live(subs') : subs'[n].endpoint = body.email
             /\ \A n \in Live(subs') :
                  subs'[n].endpoint = body.email
                    => /\ "OrderUrgent" \notin subs'[n].filter
                       /\ "OrderCreated" \in subs'[n].filter
     /\ \A n \in Live(subs) :
          subs[n].status = "Confirmed"
            => /\ (publish("OrderUrgent") /\ "OrderUrgent" \notin subs[n].filter)
                    => subs[n].endpoint \notin delivered'.to
               /\ (publish("OrderCreated") /\ "OrderCreated" \in subs[n].filter)
                    => subs[n].endpoint \in delivered'.to]_vars

\* An OrderUrgent message went to a confirmed subscriber and not to the
\* confirmed subscriber whose filter leaves OrderUrgent out.
C21_Witness ==
  /\ delivered.eventType = "OrderUrgent"
  /\ delivered.to # {}
  /\ \E n \in Live(subs) :
       /\ subs[n].status = "Confirmed"
       /\ subs[n].filter = {"OrderCreated", "OrderCompleted", "OrderFailed"}
       /\ subs[n].endpoint \notin delivered.to

\* The addresses of SubscribeEmails that are no email addresses.
MalformedEmails == {<<"a", "@", "b">>, <<"a", " ", "@", "b", ".", "c">>}

\* C22: a subscribe request without an email, or with a malformed one, is
\* answered 400 and leaves the registry unchanged.
C22_BadEmailIsRejected ==
  [][\A body \in TopicBodies, snsOk \in BOOLEAN :
       ( /\ (~Has(body, "email") \/ body.email \in MalformedEmails)
         /\ subscribeEmailStep(body, snsOk) )
       => httpResp' = 400 /\ subs' = subs]_vars

\* A request was rejected with 400 while the registry holds a subscription.
C22_Witness ==
  /\ httpResp = 400
  /\ Len(subs) = 1

\* C23: an unsubscribe request for an email that has no subscription, the
\* listing succeeding, is answered 404, ends there, and leaves the registry
\* unchanged.
C23_UnknownEmailIsNotFound ==
  [][\A body \in UnsubscribeBodies :
       ( /\ unsubscribeListStep(1, body, TRUE)
         /\ Has(body, "email")
         /\ ~\E n \in DOMAIN subs :
               subs[n].status # "Deleted" /\ subs[n].endpoint = body.email )
       => /\ httpResp' = 404
          /\ subs' = subs
          /\ unsub'[1].pc = "idle"]_vars

\* A request was answered 404 while the registry holds a subscription and a
\* removed one.
C23_Witness ==
  /\ httpResp = 404
  /\ Live(subs) # {}
  /\ Live(subs) # DOMAIN subs

\* C24 (as stated): an unsubscribe request that found a subscription for its
\* email, pending or confirmed, is answered 200 when the service is
\* available, and afterwards the registry holds no subscription for the email.
C24_UnsubscribeRemoves ==
  [][unsubscribeSendStep(1, TRUE)
       => /\ httpResp' = 200
          /\ \A n \in Live(subs') : subs'[n].endpoint # unsub[1].email]_vars

\* C25 (as stated): unsubscribe acts atomically on the subscription it read:
\* the subscription an invocation found in the listing is still in the
\* registry when the invocation removes it, so that each answer is the one
\* some sequential order of the invocations gives.
C25_UnsubscribeIsAtomic ==
  [][\A w \in Unsubscribers :
       unsubscribeSendStep(w, TRUE)
         => unsub[w].arn = 0 \/ unsub[w].arn \in Live(subs)]_vars

C29_AllRecordsReturned ==
  [][\A scanOk \in BOOLEAN :
       getOrdersStep(scanOk)
         => /\ store' = store
            /\ scanOk => scanResp'.status = 200 /\ scanResp'.orders = store
            /\ ~scanOk => scanResp'.status = 500]_vars

\* C30 (as stated): a tracked order whose status is "completed" or "failed"
\* keeps that status for as long as it is tracked, whatever is submitted
\* afterwards.
C30_TerminalStatusIsFinal ==
  [][\A n \in DOMAIN ui.orders, k \in DOMAIN ui'.orders :
       ( /\ ui.orders[n].id = ui'.orders[k].id
         /\ ui.orders[n].status \in {"completed", "failed"} )
       => ui'.orders[k].status = ui.orders[n].status]_vars

\* The event's key and modifiers equal the shortcut's, the key without regard
\* to case.
SameKeys(shortcut, event) ==
  /\ \E class \in {{"n", "N"}, {"s", "S"}, {"Escape"}} :
       event.key \in class /\ shortcut.key \in class
  /\ \A flag \in {"ctrlKey", "shiftKey", "altKey", "metaKey"} :
       event[flag] = (flag \in DOMAIN shortcut /\ shortcut[flag] = TRUE)

\* The hook lets the event through: it is enabled, and the focus is not in a
\* form field unless the key is Escape.
Handled(event) ==
  /\ hook.isEnabled
  /\ event.tagName \in {"INPUT", "TEXTAREA", "SELECT"} => event.key = "Escape"

C32_EveryPersistedOrderEndsTerminal ==
  Quiescent =>
    \A m \in DOMAIN queue :
      ( /\ queue[m].st = "deleted"
        /\ queue[m].body.orderValue <= HighValueThreshold )
      => \E k \in RecordsOf(queue[m].body.orderId) :
           store[k].status \in {"completed", "failed"}

\* C33 (as stated): the record of an order that was enqueued once, once its
\* status is completed or failed, keeps its status in every later step.
C33_TerminalRecordIsFinal ==
  [][\A k \in DOMAIN store :
       ( /\ Cardinality(MessagesOf(k[1])) = 1
         /\ store[k].status \in {"completed", "failed"} )
       => store'[k].status = store[k].status]_vars

\* The executions of an order in which Process Payment ran (each run
\* generates a transactionId).
PaymentsOf(orderId) ==
  {i \in DOMAIN execs : /\ execs[i].input.orderId = orderId
                        /\ "ProcessPayment" \in Range(execs[i].trace)}

\* C34 (as stated): for an order that was enqueued once, Process Payment runs
\* in at most one execution.
C34_PaymentAtMostOnce ==
  \A o \in OrderIds :
    Cardinality(MessagesOf(o)) = 1 => Cardinality(PaymentsOf(o)) <= 1

\* C35 (as stated): the key every execution writes to, the (orderId,
\* timestamp) of its input, is the key of a record the consumer persisted.
C35_WorkflowKeyIsPersistedKey ==
  \A i \in DOMAIN execs : WorkflowKey(execs[i].input) \in DOMAIN store

\* C36 (as stated): the record of an order that was enqueued once, when its
\* status is completed, carries what the four steps wrote: validationResult,
\* paymentStatus, transactionId, inventoryUpdates and notificationSent.
C36_CompletedRecordIsWhole ==
  \A k \in DOMAIN store :
    (Cardinality(MessagesOf(k[1])) = 1 /\ store[k].status = "completed")
      => {"validationResult", "paymentStatus", "transactionId",
          "inventoryUpdates", "notificationSent"} \subseteq store[k].attrs

\* C37 (as stated): a message in the dead-letter queue is not the message of
\* an order that was enqueued once and that the consumer persisted.
C37_PersistedNeverDeadLettered ==
  \A m \in DOMAIN queue :
    (queue[m].st = "dlq" /\ Cardinality(MessagesOf(queue[m].body.orderId)) = 1)
      => ~Persisted(queue[m].body)

\* The executions of an order that published a terminal notification.
TerminalPublishers(orderId) ==
  {i \in DOMAIN execs :
     /\ execs[i].input.orderId = orderId
     /\ execs[i].published \cap {"OrderCompleted", "OrderFailed"} # {}}

\* C38 (as stated): for an order that was enqueued once, at most one
\* execution publishes a terminal notification, and it publishes one kind.
C38_OneTerminalNotification ==
  \A o \in OrderIds :
    Cardinality(MessagesOf(o)) = 1
      => /\ Cardinality(TerminalPublishers(o)) <= 1
         /\ \A i \in TerminalPublishers(o) : Cardinality(execs[i].published) = 1

\* C39 (as stated): a Send Notification step whose publish of OrderCompleted
\* succeeded ends the execution in Succeeded and leaves the order's record
\* with status completed.
C39_CompletedNotificationMeansCompleted ==
  [][\A i \in DOMAIN execs, ddbOk \in BOOLEAN :
       sendNotificationStep(i, TRUE, ddbOk)
         => /\ "OrderCompleted" \in execs'[i].published
            /\ execs'[i].state = "Succeeded"
            /\ WorkflowKey(execs[i].input) \in DOMAIN store'
            /\ store'[WorkflowKey(execs[i].input)].status = "completed"]_vars

\* C40 (as stated): every invocation of a notify handler for an Order Created
\* event, the topic accepting the publish, ends with its notification
\* published, also when the detail has no orderValue or no items.
C40_NotifyNeverThrows ==
  [][\A target \in NotifyHandlers, ev \in NotifyEvents :
       notifyStep(target, ev, TRUE)
         => <<target, ev, "published">> \in notified']_vars

====
